---- MODULE Spec2Model ----
(***************************************************************************)
(* The droplet reconciler of plugins/modules/digital_ocean_droplet.py as a *)
(* state machine: one module invocation (core -> DODroplet.create or       *)
(* DODroplet.delete) against the DigitalOcean API, one action per HTTP     *)
(* request or poll-loop iteration.  The provider's answers are the         *)
(* nondeterministic input of every request.                                *)
(***************************************************************************)
EXTENDS Integers, Sequences, FiniteSets, TLC

\* ------------------------------------------------------------------ bounds
MaxInitDroplets == 2      \* droplets at the provider before the first run
PageSize == 1             \* droplets per page of GET droplets?page=N
MaxRuns == 2              \* invocations with identical parameters
MaxListFaults == 1        \* non-200 answers to one name search
MaxNetworks == 2          \* entries of one network list of a droplet document

\* ------------------------------------------------------- program constants
SleepStep == 10           \* min(10, end_time - time.monotonic())

WaitTimeouts == {0, 12}
Latencies == {0, 3}       \* seconds a polling fetch may take
DesiredName == "web"
DesiredSize == "big"
States == {"present", "absent", "active", "inactive"}

\* The two modules of the collection.  class DODroplet, core and main of
\* digital_ocean_load_balancer.py (lines 179-453) are, line for line, the text
\* of digital_ocean_droplet.py (lines 220-494), endpoints and argument_spec
\* included: a run of either module is a run of the actions below.
Modules == {"droplet", "load_balancer"}

Min(a, b) == IF a < b THEN a ELSE b

\* ---------------------------------------------------------------- provider
\* A droplet at the provider: pend is the action the provider has accepted
\* and not finished ("offerr": the power_off action ended errored).
Droplet(i, n, sz, st) == [id |-> i, name |-> n, size |-> sz, status |-> st, pend |-> "none"]

FirstTemplates == {[name |-> n, size |-> sz, status |-> st] :
                     n \in {"web", "db"}, sz \in {"small", "big"},
                     st \in {"new", "active", "off"}}
OtherTemplates == {[name |-> n, size |-> "big", status |-> "active"] : n \in {"web", "db"}}

RECURSIVE InitialDroplets(_)
InitialDroplets(n) ==
  IF n = 0 THEN {<< >>}
  ELSE LET shorter == InitialDroplets(n - 1)
           T == IF n = 1 THEN FirstTemplates ELSE OtherTemplates
       IN  shorter \cup
           {Append(s, Droplet(n, t.name, t.size, t.status)) :
              s \in {x \in shorter : Len(x) = n - 1}, t \in T}

\* What the provider may have done to one droplet since the last request.
ProgressOne(d) ==
  {d}
  \cup (IF d.status = "new" THEN {[d EXCEPT !.status = "active"]} ELSE {})
  \cup (IF d.pend = "on" THEN {[d EXCEPT !.status = "active", !.pend = "none"]} ELSE {})
  \cup (IF d.pend = "off"
        THEN {[d EXCEPT !.status = "off", !.pend = "none"], [d EXCEPT !.pend = "offerr"]}
        ELSE {})
  \cup (IF d.pend = "resize" THEN {[d EXCEPT !.size = DesiredSize, !.pend = "none"]} ELSE {})

RECURSIVE Progress(_)
Progress(ds) ==
  IF ds = << >> THEN {<< >>}
  ELSE {<<h>> \o t : h \in ProgressOne(Head(ds)), t \in Progress(Tail(ds))}

Exists(ds, i) == \E k \in DOMAIN ds : ds[k].id = i
Idx(ds, i) == CHOOSE k \in DOMAIN ds : ds[k].id = i
Idle(d) == d.pend \in {"none", "offerr"}

\* The status of the droplet's power_off action as GET .../actions/{id} shows it.
ActionStatus(d) ==
  IF d.pend = "off" THEN "in-progress"
  ELSE IF d.pend = "offerr" THEN "errored" ELSE "completed"

\* The droplet document of a response; a malformed one lacks its id or status.
NoDoc == [id |-> 0, name |-> "none", size |-> "none", status |-> "none"]
Doc(d, kind) ==
  [id |-> IF kind = "noid" THEN 0 ELSE d.id,
   name |-> d.name, size |-> d.size,
   status |-> IF kind = "nostatus" THEN "none" ELSE d.status]

LookupKinds == {"ok", "err", "nostatus", "noid"}

NumPages(ds) == IF Len(ds) = 0 THEN 1 ELSE (Len(ds) + PageSize - 1) \div PageSize
PageItems(ds, pg) == SubSeq(ds, (pg - 1) * PageSize + 1, Min(pg * PageSize, Len(ds)))
HasNext_stopsEarly(ds, pg) == pg + 1 < NumPages(ds)

\* 'next' in json_data['links']['pages']: the provider names a next page
\* while there is one.
HasNext(ds, pg) == pg < NumPages(ds)

\* ----------------------------------------------------------- get_addresses
\* droplet['networks']: the v4 and the v6 list, each entry with its type and
\* its ip_address.
NetTypes == {"public", "private", "other"}
NetAddresses == {"a1", "a2"}
NetEntries == [type : NetTypes, ip_address : NetAddresses]
NetLists == UNION {[1..n -> NetEntries] : n \in 0..MaxNetworks}
NoNetworks == [v4 |-> << >>, v6 |-> << >>]

\* The four derived keys of the result, "absent" while get_addresses has not
\* set them.
NoData == [ip_address |-> "absent", private_ipv4_address |-> "absent",
           ipv6_address |-> "absent", private_ipv6_address |-> "absent"]

RECURSIVE ScanV4_firstWins(_, _)
ScanV4_firstWins(nets, acc) ==
  IF nets = << >> THEN acc
  ELSE ScanV4_firstWins(Tail(nets),
         IF Head(nets).type = "public"
         THEN (IF acc.ip_address = "absent"
               THEN [acc EXCEPT !.ip_address = Head(nets).ip_address] ELSE acc)
         ELSE (IF acc.private_ipv4_address = "absent"
               THEN [acc EXCEPT !.private_ipv4_address = Head(nets).ip_address] ELSE acc))

\* for network in networks.get('v4', []): each entry overwrites its key.
RECURSIVE ScanV4(_, _)
ScanV4(nets, acc) ==
  IF nets = << >> THEN acc
  ELSE ScanV4(Tail(nets),
         IF Head(nets).type = "public"
         THEN [acc EXCEPT !.ip_address = Head(nets).ip_address]
         ELSE [acc EXCEPT !.private_ipv4_address = Head(nets).ip_address])

\* for network in networks.get('v6', []).
RECURSIVE ScanV6(_, _)
ScanV6(nets, acc) ==
  IF nets = << >> THEN acc
  ELSE ScanV6(Tail(nets),
         IF Head(nets).type = "public"
         THEN [acc EXCEPT !.ipv6_address = Head(nets).ip_address]
         ELSE [acc EXCEPT !.private_ipv6_address = Head(nets).ip_address])

get_addresses(nets) == ScanV6(nets.v6, ScanV4(nets.v4, NoData))

\* ------------------------------------------------------------------- state
VARIABLES
  droplets, nextId, nextAid,      \* the provider
  start,                          \* the provider's droplets when the run began
  p,                              \* module.params and check_mode
  run, prev,                      \* invocation number, summary of the one before
  pc,
  page, listFaults,               \* get_by_name
  found, doc, cache,              \* json_data of get_droplet; self.id/name/size/status
  droplet_id, action_id,          \* arguments and locals of ensure_power_*
  now, end_time, slept,           \* time.monotonic(), the deadline, last time.sleep
  outcome, changed, msg, ret,     \* exit_json / fail_json / uncaught exception
  log, clean,                     \* requests issued; every lookup answer well formed
  networks, data                  \* get_addresses: the document's networks, the result

prov == <<droplets, nextId, nextAid>>
look == <<page, listFaults, found, doc, cache>>
power == <<droplet_id, action_id>>
clock == <<now, end_time, slept>>
result == <<outcome, changed, msg, ret>>
addr == <<networks, data>>
vars == <<droplets, nextId, nextAid, start, p, run, prev, pc, page, listFaults, found, doc,
          cache, droplet_id, action_id, now, end_time, slept, outcome, changed, msg,
          ret, log, clean, networks, data>>

Params ==
  {q \in [module : Modules, state : States, id : {0, 1}, name : {DesiredName, ""},
          size : {DesiredSize}, unique_name : BOOLEAN, wait : BOOLEAN,
          check_mode : BOOLEAN, wait_timeout : WaitTimeouts] :
     /\ (q.id = 0 => q.name # "")                \* required_one_of id, name
     /\ (q.state # "absent" => q.name # "")      \* required_if state
     \* parameters no line of the run reads are left at their defaults
     /\ (q.state = "absent" => q.wait)
     /\ (q.state \in {"present", "absent"} => q.wait_timeout = 12)
     \* the load balancer module is run with the states its documentation lists
     /\ (q.module = "load_balancer" => q.state \in {"present", "absent"})}

NoPrev == [found |-> FALSE, clean |-> TRUE, resizing |-> FALSE]

Fresh ==
  /\ pc = "get_by_id"
  /\ page = 1 /\ listFaults = 0
  /\ found = FALSE /\ doc = NoDoc /\ cache = NoDoc
  /\ droplet_id = 0 /\ action_id = 0
  /\ now = 0 /\ end_time = 0 /\ slept = 0
  /\ outcome = "none" /\ changed = "unset" /\ msg = "" /\ ret = "none"
  /\ log = << >> /\ clean = TRUE

Init ==
  /\ droplets \in InitialDroplets(MaxInitDroplets)
  /\ nextId = MaxInitDroplets + 1
  /\ nextAid = 1
  /\ start = droplets
  /\ p \in Params
  /\ run = 1 /\ prev = NoPrev
  /\ Fresh
  /\ networks = NoNetworks /\ data = NoData

\* One request of the log: st is the status the answer showed, or the size a
\* resize request asked for.
Req(op, i, a, ok, st) == [op |-> op, id |-> i, aid |-> a, ok |-> ok, st |-> st]

Exit(ch, m, r) ==
  /\ outcome' = "exit" /\ changed' = ch /\ msg' = m /\ ret' = r /\ pc' = "done"
Fail(ch, m) ==
  /\ outcome' = "fail" /\ changed' = ch /\ msg' = m /\ ret' = "none" /\ pc' = "done"
Crash(m) ==
  /\ outcome' = "crash" /\ changed' = "unset" /\ msg' = m /\ ret' = "none" /\ pc' = "done"

\* ------------------------------------------------------------------ locate
SearchByName_negated(byId) == ~byId /\ ~p.unique_name

\* get_droplet: `if not json_data and self.unique_name` after get_by_id.
SearchByName(byId) == ~byId /\ p.unique_name

Cached_idOnly(d) == [NoDoc EXCEPT !.id = d.id]

\* self.id, self.name, self.size, self.status = droplet.get(...) of the
\* document a lookup returns.
Cached(d) == [id |-> d.id, name |-> d.name, size |-> d.size, status |-> d.status]

\* get_by_id and the branch of get_droplet that follows it.
GetById ==
  /\ pc = "get_by_id"
  /\ IF p.id = 0
     THEN /\ UNCHANGED <<prov, log, clean, found, doc, cache>>
          /\ pc' = IF SearchByName(FALSE) THEN "get_by_name" ELSE "located"
     ELSE \E ds \in Progress(droplets), kind \in LookupKinds :
            /\ droplets' = ds
            /\ UNCHANGED <<nextId, nextAid>>
            /\ IF Exists(ds, p.id) /\ kind # "err"
               THEN LET d == Doc(ds[Idx(ds, p.id)], kind) IN
                    /\ found' = TRUE /\ doc' = d /\ cache' = Cached(d)
                    /\ log' = Append(log, Req("get_droplet", p.id, 0, TRUE, d.status))
                    /\ clean' = (clean /\ kind = "ok")
                    /\ pc' = "located"
               ELSE /\ UNCHANGED <<found, doc, cache>>
                    /\ log' = Append(log, Req("get_droplet", p.id, 0, FALSE, "none"))
                    /\ clean' = (clean /\ ~Exists(ds, p.id))
                    /\ pc' = IF SearchByName(FALSE) THEN "get_by_name" ELSE "located"
  /\ UNCHANGED <<start, p, addr, run, prev, page, listFaults, power, clock, result>>

\* The non-200 answers to one name search are counted, and logged, up to
\* MaxListFaults; past the bound every further one only flips the counter
\* between MaxListFaults and MaxListFaults + 1, so that the fetch is still a
\* step of the program.
CountFault(n) ==
  IF n < MaxListFaults THEN n + 1
  ELSE IF n = MaxListFaults THEN MaxListFaults + 1 ELSE MaxListFaults

FirstMatch_anyName(items, name) == IF items # << >> THEN 1 ELSE 0

\* get_by_name: the first droplet of the page whose name is the one asked for.
FirstMatch(items, name) ==
  IF \E k \in DOMAIN items : items[k].name = name
  THEN CHOOSE k \in DOMAIN items :
         items[k].name = name /\ \A j \in 1..(k - 1) : items[j].name # name
  ELSE 0

\* One iteration of the while loop of get_by_name: one page fetch.
GetByName ==
  /\ pc = "get_by_name"
  /\ IF p.name = ""
     THEN /\ pc' = "located"
          /\ UNCHANGED <<prov, page, listFaults, found, doc, cache, log, clean>>
     ELSE \E ds \in Progress(droplets), kind \in LookupKinds :
            /\ droplets' = ds
            /\ UNCHANGED <<nextId, nextAid>>
            /\ IF kind = "err"
               THEN \* status_code != 200: neither branch runs, page is unchanged
                    /\ listFaults' = CountFault(listFaults)
                    /\ log' = IF listFaults < MaxListFaults
                               THEN Append(log, Req("list", page, 0, FALSE, "none"))
                               ELSE log
                    /\ clean' = FALSE
                    /\ UNCHANGED <<pc, page, found, doc, cache>>
               ELSE LET items == PageItems(ds, page)
                        k == FirstMatch(items, p.name)
                    IN  /\ log' = Append(log, Req("list", page, 0, TRUE, "none"))
                        /\ listFaults' = Min(listFaults, MaxListFaults)
                        /\ IF k # 0
                           THEN LET d == Doc(items[k], kind) IN
                                /\ found' = TRUE /\ doc' = d /\ cache' = Cached(d)
                                /\ clean' = (clean /\ kind = "ok")
                                /\ pc' = "located"
                                /\ UNCHANGED page
                           ELSE /\ UNCHANGED <<found, doc, cache, clean>>
                                /\ IF HasNext(ds, page)
                                   THEN page' = page + 1 /\ pc' = pc
                                   ELSE page' = page /\ pc' = "located"
  /\ UNCHANGED <<start, p, addr, run, prev, power, clock, result>>

\* --------------------------------------------------------- DODroplet.create
ResizeAllowed_unguarded(st) == TRUE

ResizeAllowed_whenActive(st) == st = "active"

\* resize_droplet: `if self.status == 'off'`.
ResizeAllowed(st) == st = "off"

NeedsPowerOff_anyStatus(state, st) == state = "inactive"

\* create: the power state asked for does not match the located droplet's.
NeedsPowerOn(state, st) == state = "active" /\ st # "active"
NeedsPowerOff(state, st) == state = "inactive" /\ st # "off"

\* create(), from the return of get_droplet to the creation request.
CreateBranch ==
  /\ pc = "located" /\ p.state # "absent"
  /\ IF found /\ doc.size # "none" /\ doc.size # p.size
     THEN \* resize_droplet(): the request only when self.status == 'off'
          IF ResizeAllowed(cache.status)
          THEN pc' = "resize" /\ UNCHANGED <<result, power, end_time>>
          ELSE Fail("unset", "must be off prior to resizing") /\ UNCHANGED <<power, end_time>>
     ELSE IF found /\ doc.id # 0 /\ doc.status # "none"
     THEN IF NeedsPowerOn(p.state, doc.status)
          THEN /\ pc' = "power_on" /\ droplet_id' = doc.id
               /\ UNCHANGED <<result, action_id, end_time>>
          ELSE IF NeedsPowerOff(p.state, doc.status)
          THEN /\ pc' = "off_wait" /\ droplet_id' = doc.id
               /\ end_time' = now + p.wait_timeout
               /\ UNCHANGED <<result, action_id>>
          ELSE Exit("false", "", doc.status) /\ UNCHANGED <<power, end_time>>
     ELSE IF p.check_mode
          THEN Exit("true", "", "none") /\ UNCHANGED <<power, end_time>>
          ELSE pc' = "create" /\ UNCHANGED <<result, power, end_time>>
  /\ UNCHANGED <<prov, start, p, addr, run, prev, look, now, slept, log, clean>>

\* POST droplets/{id}/actions {type: resize} in resize_droplet.
ResizePost ==
  /\ pc = "resize"
  /\ \E ds \in Progress(droplets), accept \in BOOLEAN :
       IF accept
       THEN /\ Exists(ds, cache.id)
            /\ LET k == Idx(ds, cache.id) IN
               /\ ds[k].status = "off" /\ Idle(ds[k])
               /\ droplets' = [ds EXCEPT ![k].pend = "resize"]
            /\ nextAid' = nextAid + 1
            /\ log' = Append(log, Req("resize", cache.id, nextAid, TRUE, p.size))
            /\ Exit("true", "Resized Droplet", "none")
       ELSE /\ droplets' = ds /\ UNCHANGED nextAid
            /\ log' = Append(log, Req("resize", cache.id, 0, FALSE, p.size))
            /\ Fail("unset", "Resizing Droplet failed: provider message")
  /\ UNCHANGED <<nextId, start, p, addr, run, prev, look, power, clock, clean>>

CreateKinds == {"ok", "err", "noid"}

\* POST droplets and what create() does with the answer.
CreatePost ==
  /\ pc = "create"
  /\ \E ds \in Progress(droplets), kind \in CreateKinds :
       IF kind = "err"
       THEN /\ droplets' = ds /\ UNCHANGED <<nextId, power, end_time>>
            /\ log' = Append(log, Req("create", 0, 0, FALSE, "none"))
            /\ Fail("false", "provider message")
       ELSE /\ droplets' = Append(ds, Droplet(nextId, p.name, p.size, "new"))
            /\ nextId' = nextId + 1
            /\ log' = Append(log, Req("create", nextId, 0, TRUE, "new"))
            /\ IF kind = "noid"
               THEN Fail("false", "Unexpected error, please file a bug")
                    /\ UNCHANGED <<power, end_time>>
               ELSE IF p.wait /\ p.state = "active"
               THEN /\ pc' = "power_on" /\ droplet_id' = nextId
                    /\ UNCHANGED <<result, action_id, end_time>>
               ELSE IF p.wait /\ p.state = "inactive"
               THEN /\ pc' = "off_wait" /\ droplet_id' = nextId
                    /\ end_time' = now + p.wait_timeout
                    /\ UNCHANGED <<result, action_id>>
               ELSE IF ~p.wait /\ p.state = "inactive"
               THEN /\ pc' = "off_nowait" /\ droplet_id' = nextId
                    /\ UNCHANGED <<result, action_id, end_time>>
               ELSE Exit("true", "", "new") /\ UNCHANGED <<power, end_time>>
  /\ UNCHANGED <<nextAid, start, p, addr, run, prev, look, now, slept, clean>>

\* The provider's answer to a power request for droplet i: accepted only for
\* an existing droplet in the status the request starts from.
Accepts(ds, i, from) ==
  /\ Exists(ds, i)
  /\ ds[Idx(ds, i)].status = from /\ Idle(ds[Idx(ds, i)])

\* create(), wait false and state inactive: the unobserved power_off.
OffNoWait ==
  /\ pc = "off_nowait"
  /\ \E ds \in Progress(droplets), accept \in BOOLEAN :
       /\ IF accept
          THEN /\ Accepts(ds, droplet_id, "active")
               /\ droplets' = [ds EXCEPT ![Idx(ds, droplet_id)].pend = "off"]
               /\ nextAid' = nextAid + 1
               /\ log' = Append(log, Req("power_off", droplet_id, nextAid, TRUE, "none"))
          ELSE /\ droplets' = ds /\ UNCHANGED nextAid
               /\ log' = Append(log, Req("power_off", droplet_id, 0, FALSE, "none"))
       /\ Exit("true", "", "new")
  /\ UNCHANGED <<nextId, start, p, addr, run, prev, look, power, clock, clean>>

\* --------------------------------------------------------- DODroplet.delete
DeleteBranch ==
  /\ pc = "located" /\ p.state = "absent"
  /\ IF found
     THEN IF p.check_mode
          THEN Exit("true", "", "none")
          ELSE IF doc.id = 0
          THEN Crash("KeyError: 'id'")
          ELSE pc' = "delete" /\ UNCHANGED result
     ELSE Exit("false", "Droplet not found", "none")
  /\ UNCHANGED <<prov, start, p, addr, run, prev, look, power, clock, log, clean>>

\* DELETE droplets/{id}.
DeletePost ==
  /\ pc = "delete"
  /\ \E ds \in Progress(droplets), accept \in BOOLEAN :
       IF accept
       THEN /\ Exists(ds, doc.id)
            /\ droplets' = SelectSeq(ds, LAMBDA d : d.id # doc.id)
            /\ log' = Append(log, Req("delete", doc.id, 0, TRUE, "none"))
            /\ Exit("true", "Droplet deleted", "none")
       ELSE /\ droplets' = ds
            /\ log' = Append(log, Req("delete", doc.id, 0, FALSE, "none"))
            /\ Fail("false", "Failed to delete droplet")
  /\ UNCHANGED <<nextId, nextAid, start, p, addr, run, prev, look, power, clock, clean>>

\* --------------------------------------------------------- ensure_power_on
\* POST {type: power_on}; the answer is not looked at. Then the deadline.
PowerOnPost ==
  /\ pc = "power_on"
  /\ \E ds \in Progress(droplets), accept \in BOOLEAN :
       IF accept
       THEN /\ Accepts(ds, droplet_id, "off")
            /\ droplets' = [ds EXCEPT ![Idx(ds, droplet_id)].pend = "on"]
            /\ nextAid' = nextAid + 1
            /\ log' = Append(log, Req("power_on", droplet_id, nextAid, TRUE, "none"))
       ELSE /\ droplets' = ds /\ UNCHANGED nextAid
            /\ log' = Append(log, Req("power_on", droplet_id, 0, FALSE, "none"))
  /\ end_time' = now + p.wait_timeout
  /\ pc' = "on_poll"
  /\ UNCHANGED <<nextId, start, p, addr, run, prev, look, power, now, slept, result, clean>>

PollKinds == {"ok", "err"}

SleepFor_fixed(t) == SleepStep

\* time.sleep(min(10, end_time - time.monotonic())) at clock value t.
SleepFor(t) == Min(SleepStep, end_time - t)

\* One evaluation of `while time.monotonic() < end_time` in ensure_power_on
\* and the iteration it admits.
OnPoll ==
  /\ pc = "on_poll"
  /\ IF ~(now < end_time)
     THEN /\ Fail("unset", "Wait for droplet powering on timeout")
          /\ UNCHANGED <<prov, clock, log>>
     ELSE \E ds \in Progress(droplets), kind \in PollKinds, lat \in Latencies :
            LET t == now + lat IN
            /\ droplets' = ds /\ UNCHANGED <<nextId, nextAid>>
            /\ IF kind = "err" \/ ~Exists(ds, droplet_id)
               THEN /\ log' = Append(log, Req("get_droplet", droplet_id, 0, FALSE, "none"))
                    /\ Crash("KeyError: 'droplet'")
                    /\ now' = t /\ UNCHANGED <<end_time, slept>>
               ELSE LET st == ds[Idx(ds, droplet_id)].status IN
                    /\ log' = Append(log, Req("get_droplet", droplet_id, 0, TRUE, st))
                    /\ IF st = "active"
                       THEN /\ Exit("true", "", st)
                            /\ now' = t /\ UNCHANGED <<end_time, slept>>
                       ELSE IF SleepFor(t) < 0
                       THEN /\ Crash("ValueError: sleep length must be non-negative")
                            /\ now' = t /\ slept' = SleepFor(t) /\ UNCHANGED end_time
                       ELSE /\ now' = t + SleepFor(t) /\ slept' = SleepFor(t)
                            /\ UNCHANGED <<end_time, result, pc>>
  /\ UNCHANGED <<start, p, addr, run, prev, look, power, clean>>

\* -------------------------------------------------------- ensure_power_off
Refused_onlyMissing(ds, i, kind) == ~Exists(ds, i)

\* `response.status_code >= 400` of a fetch about droplet i: the provider
\* answered with an error, or with 404 because the droplet is not there.
Refused(ds, i, kind) == kind = "err" \/ ~Exists(ds, i)

\* "Make sure Droplet is active first": one evaluation of the loop condition
\* and the iteration it admits.
OffWait ==
  /\ pc = "off_wait"
  /\ IF ~(now < end_time)
     THEN \* the loop ends without a break; "Trigger power-off" is next
          /\ pc' = "power_off"
          /\ UNCHANGED <<prov, clock, log, result>>
     ELSE \E ds \in Progress(droplets), kind \in {"ok", "err", "nostatus"},
             lat \in Latencies :
            LET t == now + lat IN
            /\ droplets' = ds /\ UNCHANGED <<nextId, nextAid>>
            /\ IF Refused(ds, droplet_id, kind)
               THEN /\ log' = Append(log, Req("get_droplet", droplet_id, 0, FALSE, "none"))
                    /\ Fail("false", "provider message")
                    /\ now' = t /\ UNCHANGED <<end_time, slept>>
               ELSE LET st == Doc(ds[Idx(ds, droplet_id)], kind).status IN
                    /\ log' = Append(log, Req("get_droplet", droplet_id, 0, kind # "err", st))
                    /\ IF st = "none"
                       THEN /\ Fail("false", "Unexpected error, please file a bug (no status)")
                            /\ now' = t /\ UNCHANGED <<end_time, slept>>
                       ELSE IF st = "active"
                       THEN /\ pc' = "power_off"
                            /\ now' = t /\ UNCHANGED <<end_time, slept, result>>
                       ELSE IF SleepFor(t) < 0
                       THEN /\ Crash("ValueError: sleep length must be non-negative")
                            /\ now' = t /\ slept' = SleepFor(t) /\ UNCHANGED end_time
                       ELSE /\ now' = t + SleepFor(t) /\ slept' = SleepFor(t)
                            /\ UNCHANGED <<end_time, result, pc>>
  /\ UNCHANGED <<start, p, addr, run, prev, look, power, clean>>

\* "Trigger power-off" and "Save the power-off action".
PowerOffPost ==
  /\ pc = "power_off"
  /\ \E ds \in Progress(droplets), kind \in {"ok", "err", "noaction", "noid"} :
       IF kind = "err"
       THEN /\ droplets' = ds /\ UNCHANGED <<nextAid, action_id, end_time>>
            /\ log' = Append(log, Req("power_off", droplet_id, 0, FALSE, "none"))
            /\ Fail("false", "provider message")
       ELSE /\ Accepts(ds, droplet_id, "active")
            /\ droplets' = [ds EXCEPT ![Idx(ds, droplet_id)].pend = "off"]
            /\ nextAid' = nextAid + 1
            /\ log' = Append(log, Req("power_off", droplet_id, nextAid, TRUE, "in-progress"))
            /\ IF kind = "noaction"
               THEN Crash("AttributeError: 'NoneType' object has no attribute 'get'")
                    /\ UNCHANGED <<action_id, end_time>>
               ELSE IF kind = "noid"
               THEN Fail("false", "Unexpected error, please file a bug (no power-off action or id)")
                    /\ UNCHANGED <<action_id, end_time>>
               ELSE /\ action_id' = nextAid
                    /\ end_time' = now + p.wait_timeout
                    /\ pc' = "off_poll"
                    /\ UNCHANGED result
  /\ UNCHANGED <<nextId, start, p, addr, run, prev, look, droplet_id, now, slept, clean>>

Terminal_inProgress(st) == st \in {"completed", "in-progress"}

Terminal_orErrored(st) == st \in {"completed", "errored"}

\* The action status that ends the second loop of ensure_power_off.
Terminal(st) == st = "completed"

\* "Keep checking till it is done or times out": one evaluation of the loop
\* condition and the iteration it admits, up to the action's status.
OffPoll ==
  /\ pc = "off_poll"
  /\ IF ~(now < end_time)
     THEN /\ Fail("unset", "Wait for droplet powering off timeout")
          /\ UNCHANGED <<prov, clock, log>>
     ELSE \E ds \in Progress(droplets), kind \in {"ok", "err", "noaction", "nostatus"},
             lat \in Latencies :
            LET t == now + lat IN
            /\ droplets' = ds /\ UNCHANGED <<nextId, nextAid>>
            /\ IF Refused(ds, droplet_id, kind)
               THEN /\ log' = Append(log, Req("get_action", droplet_id, action_id, FALSE, "none"))
                    /\ Fail("false", "provider message")
                    /\ now' = t /\ UNCHANGED <<end_time, slept>>
               ELSE IF kind = "noaction"
               THEN /\ log' = Append(log, Req("get_action", droplet_id, action_id, kind # "err", "none"))
                    /\ Crash("AttributeError: 'NoneType' object has no attribute 'get'")
                    /\ now' = t /\ UNCHANGED <<end_time, slept>>
               ELSE IF kind = "nostatus"
               THEN /\ log' = Append(log, Req("get_action", droplet_id, action_id, kind # "err", "none"))
                    /\ Fail("false", "Unexpected error, please file a bug (no action or status)")
                    /\ now' = t /\ UNCHANGED <<end_time, slept>>
               ELSE LET st == ActionStatus(ds[Idx(ds, droplet_id)]) IN
                    /\ log' = Append(log, Req("get_action", droplet_id, action_id, kind # "err", st))
                    /\ IF Terminal(st)
                       THEN /\ pc' = "off_final"
                            /\ now' = t /\ UNCHANGED <<end_time, slept, result>>
                       ELSE IF SleepFor(t) < 0
                       THEN /\ Crash("ValueError: sleep length must be non-negative")
                            /\ now' = t /\ slept' = SleepFor(t) /\ UNCHANGED end_time
                       ELSE /\ now' = t + SleepFor(t) /\ slept' = SleepFor(t)
                            /\ UNCHANGED <<end_time, result, pc>>
  /\ UNCHANGED <<start, p, addr, run, prev, look, power, clean>>

\* The fetch of the droplet once the action reports completed, and the return.
OffFinal ==
  /\ pc = "off_final"
  /\ \E ds \in Progress(droplets), kind \in PollKinds :
       /\ droplets' = ds
       /\ IF Refused(ds, droplet_id, kind)
          THEN /\ log' = Append(log, Req("get_droplet", droplet_id, 0, FALSE, "none"))
               /\ Fail("false", "provider message")
          ELSE LET st == ds[Idx(ds, droplet_id)].status IN
               /\ log' = Append(log, Req("get_droplet", droplet_id, 0, kind # "err", st))
               /\ Exit("true", "", st)
  /\ UNCHANGED <<nextId, nextAid, start, p, addr, run, prev, look, power, clock, clean>>

\* ------------------------------------------------------------------- runs
\* present reconciliation invoked again in succession: the framework runs the
\* module once more, with the same parameters, after a run that succeeded.
Reinvoke ==
  /\ pc = "done" /\ outcome = "exit" /\ p.state = "present" /\ run < MaxRuns
  /\ run' = run + 1
  /\ prev' = [found |-> found, clean |-> clean,
              resizing |-> \E k \in DOMAIN droplets : droplets[k].pend = "resize"]
  /\ pc' = "get_by_id"
  /\ page' = 1 /\ listFaults' = 0
  /\ found' = FALSE /\ doc' = NoDoc /\ cache' = NoDoc
  /\ droplet_id' = 0 /\ action_id' = 0
  /\ now' = 0 /\ end_time' = 0 /\ slept' = 0
  /\ outcome' = "none" /\ changed' = "unset" /\ msg' = "" /\ ret' = "none"
  /\ log' = << >> /\ clean' = TRUE
  /\ start' = droplets
  /\ UNCHANGED <<prov, p, addr>>

Next ==
  \/ GetById
  \/ GetByName
  \/ CreateBranch
  \/ ResizePost
  \/ CreatePost
  \/ OffNoWait
  \/ DeleteBranch
  \/ DeletePost
  \/ PowerOnPost
  \/ OnPoll
  \/ OffWait
  \/ PowerOffPost
  \/ OffPoll
  \/ OffFinal
  \/ Reinvoke

Spec == Init /\ [][Next]_vars

\* The interpreter runs the module on: whenever a step is possible one is
\* taken.  Which answer the provider gives to a request is not constrained.
LiveSpec == Spec /\ WF_vars(Next)

\* ---------------------------------------------------- get_addresses alone
\* get_addresses applied to the networks of one droplet document.
AddrInit ==
  /\ networks \in [v4 : NetLists, v6 : NetLists]
  /\ data = NoData
  /\ pc = "get_addresses"
  /\ droplets = << >> /\ nextId = 1 /\ nextAid = 1 /\ start = << >>
  /\ p = [module |-> "droplet", state |-> "present", id |-> 0, name |-> DesiredName,
          size |-> DesiredSize, unique_name |-> FALSE, wait |-> TRUE,
          check_mode |-> FALSE, wait_timeout |-> 12]
  /\ run = 1 /\ prev = NoPrev
  /\ page = 1 /\ listFaults = 0
  /\ found = FALSE /\ doc = NoDoc /\ cache = NoDoc
  /\ droplet_id = 0 /\ action_id = 0
  /\ now = 0 /\ end_time = 0 /\ slept = 0
  /\ outcome = "none" /\ changed = "unset" /\ msg = "" /\ ret = "none"
  /\ log = << >> /\ clean = TRUE

GetAddresses ==
  /\ pc = "get_addresses"
  /\ data' = get_addresses(networks)
  /\ pc' = "returned"
  /\ UNCHANGED <<prov, start, p, run, prev, look, power, clock, result, log, clean,
                 networks>>

AddrNext == GetAddresses

AddrSpec == AddrInit /\ [][AddrNext]_vars

\* ================================================================== claims
Issued(op) == \E i \in DOMAIN log : log[i].op = op
Count(op) == Cardinality({i \in DOMAIN log : log[i].op = op})
Mutating == {"create", "resize", "power_on", "power_off", "delete"}
ActionOps == {"resize", "power_on", "power_off"}
Done == pc = "done"

\* A fetch of the droplet, or the locate step, has shown status active.
SawActive ==
  \/ found /\ doc.status = "active"
  \/ \E i \in DOMAIN log : log[i].op = "get_droplet" /\ log[i].ok /\ log[i].st = "active"

\* ---- C1
\* C1 as stated: every second non-check-mode state=present invocation after a
\* successful one, whatever id and unique_name are, issues no create request
\* and reports changed=false (here with every lookup of both runs answered
\* well formed and no resize pending, so that only id and unique_name vary).
C1_SecondRunNeverCreates ==
  (run >= 2 /\ ~p.check_mode /\ prev.clean /\ clean /\ ~prev.resizing) =>
    /\ ~Issued("create")
    /\ (Done => outcome = "exit" /\ changed = "false")

\* C1 amended: idempotence of state=present when the droplet of the first run
\* can be located again - unique_name is true or the first run located it by
\* id -, every lookup of both runs was answered with a well-formed 200 (or a
\* 404 for an id that does not exist) and no resize of the first run is still
\* pending at the provider: the second run issues no create request and
\* reports changed=false.
C1_IdempotentWhenLocatable ==
  (/\ run >= 2 /\ ~p.check_mode
   /\ (p.unique_name \/ prev.found)
   /\ prev.clean /\ clean /\ ~prev.resizing) =>
    /\ ~Issued("create")
    /\ (Done => outcome = "exit" /\ changed = "false")

\* The first run created the droplet, the second found it by name.
C1_Witness ==
  /\ run = 2 /\ Done /\ ~p.check_mode /\ p.unique_name /\ ~prev.found
  /\ prev.clean /\ clean /\ ~prev.resizing
  /\ found /\ doc.id = MaxInitDroplets + 1 /\ changed = "false"

\* ---- C2
\* C2: in check mode no mutating request (create, action, delete) is issued.
C2_CheckModeIssuesNoMutation ==
  p.check_mode => \A i \in DOMAIN log : log[i].op \notin Mutating

\* ---- C3
NoMatch(ds) ==
  /\ (p.id = 0 \/ ~Exists(ds, p.id))
  /\ ~\E k \in DOMAIN ds : ds[k].name = p.name

\* C3: state=absent with no droplet of the given id or name at the provider
\* ends successfully with changed=false, never in a failure, and issues no
\* DELETE request.
C3_AbsentOfNothing ==
  (p.state = "absent" /\ NoMatch(start)) =>
    /\ ~Issued("delete")
    /\ (Done => outcome = "exit" /\ changed = "false" /\ msg = "Droplet not found")

\* The name search went through two pages of other droplets.
C3_Witness ==
  /\ p.state = "absent" /\ NoMatch(start) /\ Len(start) = 2 /\ p.unique_name
  /\ Done /\ changed = "false" /\ Count("list") >= 2

\* ---- C4
\* C4: state=absent outside check mode, a droplet of the given name exists:
\* the run issues a DELETE for a droplet of that name and reports changed=true.
C4_AbsentDeletesNamed ==
  (/\ p.state = "absent" /\ ~p.check_mode /\ p.name # ""
   /\ (\E k \in DOMAIN start : start[k].name = p.name)
   /\ Done) =>
    /\ outcome = "exit" /\ changed = "true"
    /\ \E i \in DOMAIN log :
         /\ log[i].op = "delete"
         /\ \E k \in DOMAIN start : start[k].id = log[i].id /\ start[k].name = p.name

\* ---- C5
ResizeRefusedCase ==
  /\ p.state # "absent" /\ pc \notin {"get_by_id", "get_by_name", "located"}
  /\ found /\ doc.size # "none" /\ doc.size # p.size /\ doc.status # "off"

\* C5: create() on a located droplet whose size differs from the desired one
\* and whose status is not off ends in the fatal 'must be off prior to
\* resizing' failure and issues no resize request.
C5_ResizeNeedsOff ==
  ResizeRefusedCase =>
    /\ ~Issued("resize")
    /\ outcome = "fail" /\ msg = "must be off prior to resizing"

C5_Witness ==
  ResizeRefusedCase /\ doc.status = "active" /\ outcome = "fail" /\ log # << >>

\* ---- C6
\* The located document carries the droplet's id; its status is active.
LocatedActiveWantInactive ==
  found /\ doc.id # 0 /\ doc.status = "active" /\ p.state = "inactive"

\* C6 as stated: a located active droplet and state=inactive always give
\* exactly one power_off request, and a successful end returns status off.
C6_ExactlyOnePowerOff ==
  (LocatedActiveWantInactive /\ Done) =>
    /\ Count("power_off") = 1
    /\ (outcome = "exit" => ret = "off")

\* C6 amended: for a located droplet (its document carrying the id) whose
\* status is active and state=inactive, at most one power_off request is
\* issued (none when the run fails before it); a run that ends successfully
\* has issued exactly one, reports changed=true and returns a snapshot with
\* status off.
C6_PowerOffOnceOnSuccess ==
  LocatedActiveWantInactive =>
    /\ Count("power_off") <= 1
    /\ (outcome = "exit" =>
          Count("power_off") = 1 /\ changed = "true" /\ ret = "off")

C6_Witness ==
  LocatedActiveWantInactive /\ outcome = "exit" /\ ret = "off" /\ Count("get_action") >= 2

\* ---- C7
PowerStateMatches ==
  /\ found /\ doc.id # 0 /\ p.state \in {"active", "inactive"}
  /\ \/ p.state = "active" /\ doc.status = "active"
     \/ p.state = "inactive" /\ doc.status = "off"

\* C7 as stated: a located droplet already in the target power state never
\* gets an action request of any type.
C7_NoActionAtAll ==
  PowerStateMatches => \A i \in DOMAIN log : log[i].op \notin ActionOps

\* C7 amended: a located droplet (its document carrying the id) already in
\* the target power state gets no
\* power_on and no power_off request; the only action request it can get is
\* a resize, and only when its size differs from the desired size and its
\* status is off.
C7_NoPowerAction ==
  PowerStateMatches =>
    /\ \A i \in DOMAIN log : log[i].op \notin {"power_on", "power_off"}
    /\ (Issued("resize") => doc.size # p.size /\ doc.status = "off")

C7_Witness ==
  PowerStateMatches /\ Done /\ outcome = "exit" /\ changed = "false" /\ doc.size = p.size

\* ---- C8
\* C8: a successful non-check-mode state=active run has seen the droplet with
\* status active, when locating it or in a fetch.
C8_ActiveSeenBeforeSuccess ==
  (p.state = "active" /\ ~p.check_mode /\ outcome = "exit") => SawActive

\* ---- C9
\* C9: with wait=true a run that created the droplet does not report success
\* before a fetch has shown it active.
C9_WaitSeesActive ==
  (/\ p.wait /\ outcome = "exit"
   /\ \E i \in DOMAIN log : log[i].op = "create" /\ log[i].ok) => SawActive

\* ---- C10
InPollLoop == pc \in {"on_poll", "off_wait", "off_poll"}

\* C10: a poll loop whose deadline has passed (wait_timeout > 0, the awaited
\* status not seen) ends the run in the fatal timeout failure: the run goes
\* nowhere else from there.
C10_DeadlineIsFatal ==
  [][(InPollLoop /\ p.wait_timeout > 0 /\ ~(now < end_time)) =>
       (outcome' = "fail" /\ msg' \in {"Wait for droplet powering on timeout",
                                        "Wait for droplet powering off timeout"})]_vars

\* ---- C11
TimeoutMessages == {"Wait for droplet powering on timeout",
                    "Wait for droplet powering off timeout"}
LongestFetch == CHOOSE l \in Latencies : \A m \in Latencies : m <= l

\* C11: the run gives up waiting no later than wait_timeout seconds (and the
\* fetch in flight) after the first poll deadline was set.  The clock reads 0
\* when a run sets its first deadline: it advances in the poll loops only.
C11_GivesUpWithinWaitTimeout ==
  (outcome = "fail" /\ msg \in TimeoutMessages) => now <= p.wait_timeout + LongestFetch

\* ---- C12
Lists == SelectSeq(log, LAMBDA r : r.op = "list")
Named(ds, name) == \E k \in DOMAIN ds : ds[k].name = name
FirstNamed(ds, name) ==
  CHOOSE k \in DOMAIN ds : ds[k].name = name /\ \A j \in 1..(k - 1) : ds[j].name # name
PageOf(k) == (k + PageSize - 1) \div PageSize

\* C12: a name search answered with 200s only fetches pages 1, 2, ... in
\* order; with a droplet of the name it stops at the page of the first one and
\* returns it, without one it fetches every page, up to the first one that
\* has no links.pages.next, and returns nothing.
C12_PaginationExact ==
  (Issued("list") /\ listFaults = 0 /\ pc # "get_by_name") =>
    /\ \A i \in DOMAIN Lists : Lists[i].id = i /\ Lists[i].ok
    /\ IF Named(start, p.name)
       THEN /\ found /\ doc.name = p.name
            /\ Len(Lists) = PageOf(FirstNamed(start, p.name))
       ELSE ~found /\ Len(Lists) = NumPages(start)

\* Several pages, the first droplet of the name on the last one.
C12_Witness ==
  /\ Issued("list") /\ listFaults = 0 /\ pc # "get_by_name"
  /\ NumPages(start) >= 2 /\ Named(start, p.name)
  /\ PageOf(FirstNamed(start, p.name)) = NumPages(start)
  /\ found /\ Len(Lists) = NumPages(start)

\* ---- C13
\* C13: a run that ends in a failure (here a timeout or a rejected request)
\* after the provider accepted one of its mutating requests reports
\* changed=true.
C13_FailureReportsMutation ==
  (/\ outcome = "fail" /\ msg \in TimeoutMessages \cup {"provider message"}
   /\ \E i \in DOMAIN log : log[i].op \in Mutating /\ log[i].ok) =>
    changed = "true"

\* ---- C14
\* C14: the load balancer module, having located a resource whose size is not
\* the desired one, issues no mutating request and ends in a failure.
C14_LoadBalancerSizeImmutable ==
  (/\ p.module = "load_balancer" /\ p.state = "present"
   /\ found /\ doc.size \notin {"none", p.size}) =>
    /\ \A i \in DOMAIN log : log[i].op \notin Mutating
    /\ (Done => outcome = "fail")

\* ---- C15
\* C15: the load balancer module with state=present and no id finds a resource
\* of the desired name whenever one exists, and issues no creation request.
C15_LoadBalancerFoundByName ==
  (/\ p.module = "load_balancer" /\ p.state = "present" /\ p.id = 0
   /\ ~p.check_mode /\ Named(start, p.name)) =>
    /\ ~Issued("create")
    /\ (pc \notin {"get_by_id", "get_by_name"} => found)

\* ---- C16
\* C16: every power_off request of ensure_power_off (create() issues its own
\* only after a creation with wait false) comes after a fetch of that droplet
\* that showed status active.
C16_PowerOffAfterActiveSeen ==
  \A i \in DOMAIN log :
    (log[i].op = "power_off" /\ (p.wait \/ ~Issued("create"))) =>
      \E j \in 1..(i - 1) :
        /\ log[j].op = "get_droplet" /\ log[j].ok
        /\ log[j].id = log[i].id /\ log[j].st = "active"

\* ---- C17
\* C17: create() outside check mode on a located droplet whose document lacks
\* the id or the status ends in a failure, and no run that located a droplet
\* issues a creation request.
C17_MalformedLocatedIsFatal ==
  /\ (/\ found /\ p.state # "absent" /\ ~p.check_mode
      /\ (doc.id = 0 \/ doc.status = "none") /\ Done) => outcome = "fail"
  /\ (found => ~Issued("create"))

\* ---- C18
\* C18: the name search ends, whatever the provider answers.
C18_NameSearchEnds == (pc = "get_by_name") ~> (pc # "get_by_name")

\* ---- C19
\* C19: with an id given the fetch by id alone decides what is located - found
\* exactly when it was answered with a 200 - and no list request is issued.
C19_IdFetchDecides ==
  p.id # 0 =>
    /\ ~Issued("list")
    /\ (pc \notin {"get_by_id", "get_by_name"} => (found <=> log[1].ok))

LookupLen == (IF p.id # 0 THEN 1 ELSE 0) + Count("list")

ResizeCase ==
  /\ p.state # "absent" /\ pc \notin {"get_by_id", "get_by_name", "located"}
  /\ found /\ doc.size \notin {"none", p.size} /\ doc.status = "off"

\* C21: create() on a located droplet whose size differs from the desired one
\* and whose status is off issues one resize request, for the located id and
\* the desired size, as its only request after the locate step; accepted, the
\* run ends with changed=true 'Resized Droplet', rejected, it ends in a failure.
C21_ResizeOnceThenEnd ==
  ResizeCase =>
    /\ pc \in {"resize", "done"}
    /\ (pc = "resize" => Len(log) = LookupLen)
    /\ (Done =>
          LET r == log[Len(log)] IN
          /\ Len(log) = LookupLen + 1 /\ Count("resize") = 1
          /\ r.op = "resize" /\ r.id = doc.id /\ r.st = p.size
          /\ IF r.ok
             THEN outcome = "exit" /\ changed = "true" /\ msg = "Resized Droplet"
             ELSE outcome = "fail")

\* state=active: the run ends after the accepted resize, without a power_on.
C21_Witness ==
  /\ ResizeCase /\ Done /\ p.state = "active" /\ outcome = "exit" /\ changed = "true"
  /\ log[Len(log)].op = "resize" /\ log[Len(log)].ok

\* ---- C22
\* C22: after an accepted power_off request every later request is a fetch of
\* that droplet's action with the id the power_off answer gave, except the
\* last one, which may be one fetch of the droplet right after an action fetch
\* that showed completed; a run that polled the action and ends successfully
\* ends with that fetch and returns its snapshot.
C22_ActionPolledThenSnapshot ==
  /\ \A i \in DOMAIN log :
       (log[i].op = "power_off" /\ log[i].ok) =>
         \A j \in (i + 1)..Len(log) :
           \/ /\ log[j].op = "get_action"
              /\ log[j].id = log[i].id /\ log[j].aid = log[i].aid
           \/ /\ j = Len(log) /\ j > i + 1
              /\ log[j].op = "get_droplet" /\ log[j].id = log[i].id
              /\ log[j - 1].op = "get_action" /\ log[j - 1].ok
              /\ log[j - 1].st = "completed"
  /\ (action_id # 0 /\ outcome = "exit") =>
       /\ log[Len(log)].op = "get_droplet" /\ log[Len(log)].ok
       /\ ret = log[Len(log)].st

\* A created droplet, its action polled more than once before it completed.
C22_Witness ==
  /\ action_id # 0 /\ outcome = "exit" /\ ~found
  /\ Count("get_action") >= 2 /\ log[Len(log)].op = "get_droplet"

\* ---- C23
\* C23: a run that issues power_on issues it once, after the create request
\* if there is one and before every status fetch that follows, and ends
\* either successfully with a snapshot whose status is active or in the
\* 'powering on' timeout failure.
C23_PowerOnOnceThenActiveOrTimeout ==
  Issued("power_on") =>
    /\ Count("power_on") = 1
    /\ \A i, j \in DOMAIN log :
         (log[i].op = "power_on" /\ j > i) => log[j].op = "get_droplet"
    /\ \A i, j \in DOMAIN log :
         (log[i].op = "power_on" /\ log[j].op = "create") => j < i
    /\ (Done => \/ outcome = "exit" /\ ret = "active"
                \/ outcome = "fail" /\ msg = "Wait for droplet powering on timeout")

\* ---- C24
\* A request of ensure_power_off: one after the locate step in a state=inactive
\* run (create() issues its own power_off only after a creation with wait
\* false).
PowerOffPathRequest(i) ==
  /\ p.state = "inactive" /\ (p.wait \/ ~Issued("create"))
  /\ i > LookupLen /\ log[i].op \in {"get_droplet", "power_off", "get_action"}

\* C24: a request of ensure_power_off that the provider rejects is the run's
\* last request, and the run ends in the failure that carries the provider's
\* message.
C24_PowerOffRejectionIsFatal ==
  \A i \in DOMAIN log :
    (PowerOffPathRequest(i) /\ ~log[i].ok) =>
      /\ i = Len(log)
      /\ outcome = "fail" /\ msg = "provider message" /\ changed = "false"

\* The action poll was rejected after an accepted power_off.
C24_Witness ==
  /\ log # << >> /\ PowerOffPathRequest(Len(log))
  /\ log[Len(log)].op = "get_action" /\ ~log[Len(log)].ok
  /\ Count("get_action") >= 2 /\ outcome = "fail"

\* ---- C25
ProviderMessages == {"provider message", "Resizing Droplet failed: provider message"}

\* C25: a run one of whose requests after the locate step was rejected ends
\* in a failure whose message carries the provider's message.
C25_RejectionCarriesMessage ==
  (Done /\ \E i \in DOMAIN log : i > LookupLen /\ ~log[i].ok) =>
    outcome = "fail" /\ msg \in ProviderMessages

\* ---- C26
\* C26: a run reports a timeout only after a status fetch: its last request
\* is then a fetch of the droplet or of the action.
C26_FetchBeforeTimeout ==
  (outcome = "fail" /\ msg \in TimeoutMessages) =>
    /\ Len(log) > LookupLen
    /\ log[Len(log)].op \in {"get_droplet", "get_action"}

\* ---- C27
\* C27: in a poll loop the clock is never past the loop's deadline when the
\* loop condition is evaluated, and no sleep lasted more than 10 s.
C27_NoOversleep ==
  InPollLoop => now <= end_time /\ slept <= SleepStep

\* A sleep cut short by the deadline.
C27_Witness ==
  InPollLoop /\ slept > 0 /\ slept < SleepStep /\ now = end_time

\* ---- C28
\* C28: no duration handed to time.sleep is negative.
C28_SleepNeverNegative == slept >= 0

\* ---- C30
\* C30: a power_off answer or an action-poll answer that lacks the action
\* object does not end the run in an unhandled AttributeError.
C30_MissingActionIsOrderly ==
  outcome = "crash" => msg # "AttributeError: 'NoneType' object has no attribute 'get'"

\* ---- C29
\* The address of the last entry of a list whose type is one of types.
LastOf(nets, types) ==
  IF \E i \in DOMAIN nets : nets[i].type \in types
  THEN LET k == CHOOSE i \in DOMAIN nets :
                  /\ nets[i].type \in types
                  /\ \A j \in (i + 1)..Len(nets) : nets[j].type \notin types
       IN  nets[k].ip_address
  ELSE "absent"

\* C29 as stated: each derived key is present exactly when its list has an
\* entry of its type - public or private - and is then the address of the
\* last such entry.
C29_AddressesByType ==
  pc = "returned" =>
    /\ data.ip_address = LastOf(networks.v4, {"public"})
    /\ data.private_ipv4_address = LastOf(networks.v4, {"private"})
    /\ data.ipv6_address = LastOf(networks.v6, {"public"})
    /\ data.private_ipv6_address = LastOf(networks.v6, {"private"})

\* C29 amended: ip_address (ipv6_address) is present exactly when the v4 (v6)
\* list has an entry of type public and is the address of the last one;
\* private_ipv4_address (private_ipv6_address) is present exactly when the
\* list has an entry of any type other than public and is the address of the
\* last one.
C29_PublicOrElsePrivate ==
  pc = "returned" =>
    /\ data.ip_address = LastOf(networks.v4, {"public"})
    /\ data.private_ipv4_address = LastOf(networks.v4, NetTypes \ {"public"})
    /\ data.ipv6_address = LastOf(networks.v6, {"public"})
    /\ data.private_ipv6_address = LastOf(networks.v6, NetTypes \ {"public"})

\* Two public v4 entries with different addresses: the last one is returned.
C29_Witness ==
  /\ pc = "returned" /\ Len(networks.v4) = 2
  /\ networks.v4[1].type = "public" /\ networks.v4[2].type = "public"
  /\ networks.v4[1].ip_address # networks.v4[2].ip_address
  /\ data.ip_address = networks.v4[2].ip_address
  /\ data.private_ipv4_address = "absent"

====
